---- MODULE Spec2Model ----
(***************************************************************************)
(* A model of routeway-py: the blocking client (src/routeway/client.py),   *)
(* the asynchronous client (src/routeway/async_client.py) and the error    *)
(* classes (src/routeway/errors.py).                                       *)
(*                                                                         *)
(* The specifications share the variables:                                 *)
(*   SpecStream   the streaming decoder _stream_chat_completion of both    *)
(*                clients, one decode pass each over the same server       *)
(*                behaviour, one step per line read;                       *)
(*   SpecRequest  _make_request / _handle_http_error as called from        *)
(*                models_list, model_retrieve and the non-streaming        *)
(*                chat_completion;                                         *)
(*   SpecBuild    the payload assembled by chat_completion;                *)
(*   SpecClient   the constructors, close() and the with statement;        *)
(*   SpecConcurrent  several streaming generators on one client;           *)
(*   SpecLazy     chat_completion(stream=True) from the call to the pulls. *)
(***************************************************************************)
EXTENDS Integers, Sequences, FiniteSets, TLC

(***************************************************************************)
(* Bounds of the model.                                                    *)
(***************************************************************************)
MaxLines == 3
MaxRetries == 1
MaxCloses == 2
MaxStreams == 2

Clients == {"sync", "async"}

(***************************************************************************)
(* Text.  A line is a sequence of one-character strings; "xFF" stands for  *)
(* a byte that is not valid UTF-8, "uFFFD" for the replacement character.  *)
(***************************************************************************)
Prefix == <<"d", "a", "t", "a", ":", " ">>
Sentinel == <<"[", "D", "O", "N", "E", "]">>
Digits == {"0", "1", "2", "3", "4", "5", "6", "7", "8", "9"}
Whitespace == {" "}

LineBlank == <<>>
LineComment == <<":">>
LineDone == Prefix \o Sentinel
LineDoneSp == Prefix \o Sentinel \o <<" ">>
LineOne == Prefix \o <<"1">>
LineTwo == Prefix \o <<"2">>
LineBad == Prefix \o <<"{">>
LineBytes == <<"xFF">>
LineDataBytes == Prefix \o <<"xFF">>

StreamLines ==
  {LineBlank, LineComment, LineDone, LineDoneSp, LineOne, LineTwo, LineBad,
   LineBytes, LineDataBytes}

StartsWith(s, p) == Len(s) >= Len(p) /\ SubSeq(s, 1, Len(p)) = p

\* bytes.decode("utf-8") raises UnicodeDecodeError on an invalid byte
Utf8Valid(line) == \A i \in 1..Len(line) : line[i] # "xFF"

\* httpx decodes the body text with errors="replace"
HttpxText(line) ==
  [i \in 1..Len(line) |-> IF line[i] = "xFF" THEN "uFFFD" ELSE line[i]]

RECURSIVE LStrip(_)
LStrip(s) ==
  IF s # <<>> /\ s[1] \in Whitespace THEN LStrip(Tail(s)) ELSE s

RECURSIVE RStrip(_)
RStrip(s) ==
  IF s # <<>> /\ s[Len(s)] \in Whitespace
    THEN RStrip(SubSeq(s, 1, Len(s) - 1)) ELSE s

DigitValue(ch) ==
  CASE ch = "0" -> 0 [] ch = "1" -> 1 [] ch = "2" -> 2 [] ch = "3" -> 3
    [] ch = "4" -> 4 [] ch = "5" -> 5 [] ch = "6" -> 6 [] ch = "7" -> 7
    [] ch = "8" -> 8 [] ch = "9" -> 9

RECURSIVE NumberValue(_)
NumberValue(s) ==
  IF s = <<>> THEN 0
  ELSE 10 * NumberValue(SubSeq(s, 1, Len(s) - 1)) + DigitValue(s[Len(s)])

\* json.loads on the JSON texts of the model: a non-negative integer
\* literal, surrounded by optional whitespace; anything else raises
\* JSONDecodeError
JsonBody(s) == RStrip(LStrip(s))

JsonValid(s) ==
  LET b == JsonBody(s) IN
    /\ b # <<>>
    /\ \A i \in 1..Len(b) : b[i] \in Digits
    /\ (Len(b) > 1 => b[1] # "0")

JsonLoads(s) == NumberValue(JsonBody(s))

(***************************************************************************)
(* Errors (errors.py).  An exception is a record: cls is the class that is *)
(* raised, message its message, status_code the attribute the class sets   *)
(* (0 stands for None).                                                    *)
(***************************************************************************)
NoStatus == 0

Exc(cls, message, status_code) ==
  [cls |-> cls, message |-> message, status_code |-> status_code]

RoutewayError(message) == Exc("RoutewayError", message, NoStatus)
RoutewayAuthError(message) == Exc("RoutewayAuthError", message, 401)
RoutewayRateLimitError(message) == Exc("RoutewayRateLimitError", message, 429)
RoutewayServerError(message) == Exc("RoutewayServerError", message, 500)
RoutewayHTTPError(message) == Exc("RoutewayHTTPError", message, NoStatus)

\* an exception of another library or of the interpreter, as it is raised
RawError(cls, message) == Exc(cls, message, NoStatus)

\* the Error kind a caller can branch on: the class of the exception
KindOf(e) ==
  CASE e.cls = "RoutewayAuthError" -> "Auth"
    [] e.cls = "RoutewayRateLimitError" -> "RateLimit"
    [] e.cls = "RoutewayServerError" -> "Server"
    [] e.cls = "RoutewayHTTPError" -> "HTTP"
    [] e.cls = "RoutewayTimeoutError" -> "Timeout"
    [] e.cls = "RoutewayConnectionError" -> "Connection"
    [] e.cls = "RoutewayValidationError" -> "Validation"
    [] e.cls = "RoutewayStreamError" -> "Stream"
    [] OTHER -> "none"

TaxonomyKinds ==
  {"Auth", "RateLimit", "Server", "HTTP", "Timeout", "Connection",
   "Validation", "Stream"}

(***************************************************************************)
(* The HTTP collaborators as the clients configure and call them.          *)
(***************************************************************************)
Statuses == {200, 304, 401, 404, 429, 500, 501}
StatusForcelist == {429, 500, 502, 503, 504}
NetOutcomes == {"ok", "timeout", "connect"}

\* response bodies: json says whether the body decodes as JSON, top is the
\* type of the decoded value, error the type of its "error" member,
\* has_message whether that mapping has a "message" member
Body(json, top, error, has_message, message) ==
  [json |-> json, top |-> top, error |-> error,
   has_message |-> has_message, message |-> message]

BodyHtml == Body(FALSE, "none", "absent", FALSE, "")
BodyArray == Body(TRUE, "array", "absent", FALSE, "")
BodyObject == Body(TRUE, "object", "absent", FALSE, "")
BodyErrorString == Body(TRUE, "object", "string", FALSE, "")
BodyErrorNoMessage == Body(TRUE, "object", "object", FALSE, "")
BodyBadKey == Body(TRUE, "object", "object", TRUE, "bad key")
BodyBoom == Body(TRUE, "object", "object", TRUE, "boom")

Bodies ==
  {BodyHtml, BodyArray, BodyObject, BodyErrorString, BodyErrorNoMessage,
   BodyBadKey, BodyBoom}

Response(status, body) == [t |-> "response", status |-> status, body |-> body,
                           exc |-> "none"]
Failure(exc) == [t |-> "exc", status |-> 0, body |-> BodyHtml, exc |-> exc]

\* urllib3's Retry(total=max_retries, status_forcelist=..., allowed_methods=
\* ["POST", "GET"]) as mounted on the session: a response whose status is in
\* the forcelist is retried while the budget lasts, and when the budget is
\* exhausted the session raises requests.exceptions.RetryError
RECURSIVE RetryLoop(_, _, _, _)
RetryLoop(served, body, i, total) ==
  IF served[i] \in StatusForcelist
    THEN IF total - 1 < 0
           THEN Failure("RetryError")
           ELSE RetryLoop(served, body, i + 1, total - 1)
    ELSE Response(served[i], body)

\* self.session.request(...) of the blocking client
SessionRequest(net, served, body, max_retries) ==
  CASE net = "timeout" -> Failure("Timeout")
    [] net = "connect" -> Failure("ConnectionError")
    [] OTHER -> RetryLoop(served, body, 1, max_retries)

\* self.client.request(...) / self.client.stream(...) of the asynchronous
\* client: AsyncHTTPTransport(retries=...) retries connection attempts only
ClientRequest(net, served, body) ==
  CASE net = "timeout" -> Failure("TimeoutException")
    [] net = "connect" -> Failure("ConnectError")
    [] OTHER -> Response(served[1], body)

\* requests' Response.raise_for_status raises HTTPError for 400..599
RequestsRaises(status) == 400 <= status /\ status < 600

\* httpx's Response.raise_for_status raises HTTPStatusError unless 2xx
HttpxRaises(status) == ~(200 <= status /\ status < 300)

\* str(error) of the collaborator's status exception
StrOfHTTPError(c, status) ==
  IF c = "sync"
    THEN ToString(status) \o
           (IF status < 500 THEN " Client Error" ELSE " Server Error")
    ELSE (CASE status < 200 -> "Informational response "
            [] status < 400 -> "Redirect response "
            [] status < 500 -> "Client error "
            [] OTHER -> "Server error ") \o ToString(status)

(***************************************************************************)
(* _handle_http_error and _make_request.                                   *)
(***************************************************************************)
\* error_data = error.response.json();
\* error_data.get("error", {}).get("message", str(error)), with the
\* fallback of the except (json.JSONDecodeError, AttributeError) clause
ErrorMessage(c, status, body) ==
  IF ~body.json THEN StrOfHTTPError(c, status)
  ELSE IF body.top # "object" THEN StrOfHTTPError(c, status)
  ELSE IF body.error = "absent" THEN StrOfHTTPError(c, status)
  ELSE IF body.error # "object" THEN StrOfHTTPError(c, status)
  ELSE IF ~body.has_message THEN StrOfHTTPError(c, status)
  ELSE body.message

_handle_http_error(c, status, body) ==
  LET error_message == ErrorMessage(c, status, body) IN
    IF status = 401 THEN RoutewayAuthError(error_message)
    ELSE IF status = 429 THEN RoutewayRateLimitError(error_message)
    ELSE IF 500 <= status /\ status < 600
      THEN RoutewayServerError(error_message)
    ELSE RoutewayHTTPError(error_message)

Return(resp) == [t |-> "return", status |-> resp.status, body |-> resp.body,
                 err |-> RawError("none", "")]
Raise(e) == [t |-> "raise", status |-> 0, body |-> BodyHtml, err |-> e]
NoResult == [t |-> "none", status |-> 0, body |-> BodyHtml,
             err |-> RawError("none", "")]

\* the except clauses of _make_request for a failure of the collaborator
TransportError(exc) ==
  CASE exc \in {"Timeout", "TimeoutException"} ->
         RoutewayError("Request timed out")
    [] exc \in {"ConnectionError", "ConnectError"} ->
         RoutewayError("Connection failed")
    [] OTHER -> RoutewayError("Request failed: " \o exc)

_make_request(c, net, served, body, max_retries) ==
  LET r == IF c = "sync" THEN SessionRequest(net, served, body, max_retries)
                         ELSE ClientRequest(net, served, body)
      raises == IF c = "sync" THEN RequestsRaises(r.status)
                              ELSE HttpxRaises(r.status)
  IN IF r.t = "exc" THEN Raise(TransportError(r.exc))
     ELSE IF raises THEN Raise(_handle_http_error(c, r.status, r.body))
     ELSE Return(r)

(***************************************************************************)
(* State.                                                                  *)
(*   The environment of one run: what the server and the network do.       *)
(*     net          whether a response is received at all                  *)
(*     served       the status the server answers to each attempt          *)
(*     body         the body of an error response                          *)
(*     lines        the lines of the streamed body that arrive, as bytes   *)
(*     broken       the stream breaks after these lines: the next read     *)
(*                  raises a transport error instead of ending the input  *)
(*     max_retries  the constructor argument of both clients               *)
(*   One decode pass per client (the generator returned by                 *)
(*   chat_completion(stream=True)):                                        *)
(*     pc        "created" (never pulled), "suspended" (at the yield),     *)
(*               "done"                                                    *)
(*     pos       the number of lines read from the stream                  *)
(*     chunks    the chunks yielded so far                                 *)
(*     outcome   how the pass ended                                        *)
(*     opened    a response was opened for the pass                        *)
(*     released  how often the response was closed                         *)
(*   The last call of chat_completion, models_list or model_retrieve:      *)
(*     call      the client, the operation and its arguments (before the   *)
(*               call: the arguments the program is about to pass)         *)
(*     payload   the JSON payload chat_completion assembled                *)
(*     result    what the call returned or raised                          *)
(*   sent        per client, the requests handed to the HTTP collaborator  *)
(*               by its last call or decode pass                           *)
(*   The client objects:                                                   *)
(*     ctor      the arguments and the process environment of the          *)
(*               constructor calls                                         *)
(*     client    per client, the object the constructor built (or the      *)
(*               error it raised), its headers, the connection resources   *)
(*               created for it and the calls of close() on it             *)
(*     scope     per client, the with / async with statement around it     *)
(*     streams   the decode passes that are in flight together on one      *)
(*               client                                                    *)
(*     last      per client, what the consumer's last pull from the        *)
(*               sequence gave: "chunk", "end" (StopIteration /            *)
(*               StopAsyncIteration) or "raise"                            *)
(***************************************************************************)
VARIABLES net, served, body, lines, broken, max_retries,
          pc, pos, chunks, outcome, opened, released, last,
          call, payload, result, sent,
          ctor, client, scope, streams

envVars == <<net, served, body, lines, broken, max_retries>>
streamVars == <<pc, pos, chunks, outcome, opened, released, last>>
callVars == <<call, payload, result>>
objectVars == <<ctor, client, scope, streams>>
vars == <<envVars, streamVars, callVars, sent, objectVars>>

NoExc == RawError("none", "")
Outcome(t, err) == [t |-> t, err |-> err]

(***************************************************************************)
(* _stream_chat_completion: the body of the loop over the lines.           *)
(***************************************************************************)
Skip == [t |-> "skip", value |-> 0, err |-> NoExc]
Stop == [t |-> "stop", value |-> 0, err |-> NoExc]
Yield(v) == [t |-> "yield", value |-> v, err |-> NoExc]
Throw(e) == [t |-> "raise", value |-> 0, err |-> e]

\* DecodePayload with the sentinel test dropped: [DONE] is then one more
\* payload that fails to decode
DecodePayloadNoBreak(data_str) ==
  IF JsonValid(data_str) THEN Yield(JsonLoads(data_str)) ELSE Skip

\* data_str = line_str[6:]; [DONE] breaks, json.loads yields, and
\* JSONDecodeError is logged and the loop continues
DecodePayload(data_str) ==
  IF data_str = Sentinel THEN Stop
  ELSE IF JsonValid(data_str) THEN Yield(JsonLoads(data_str))
  ELSE Skip

\* the loop body after the text of the line is known
DecodeLine(line_str) ==
  IF StartsWith(line_str, Prefix)
    THEN DecodePayload(SubSeq(line_str, 7, Len(line_str)))
    ELSE Skip

\* one iteration of the loop: the blocking client gets bytes from
\* iter_lines() and decodes them, the asynchronous client gets text from
\* aiter_lines()
ProcessLine(c, raw) ==
  IF c = "sync"
    THEN IF raw = <<>> THEN Skip
         ELSE IF ~Utf8Valid(raw)
           THEN Throw(RawError("UnicodeDecodeError", "invalid start byte"))
         ELSE DecodeLine(raw)
    ELSE LET line == HttpxText(raw) IN
           IF line = <<>> THEN Skip ELSE DecodeLine(line)

\* the exception of the collaborator when the stream breaks while a line
\* is read: neither client catches it
StreamBroken(c) ==
  IF c = "sync" THEN RawError("ChunkedEncodingError", "Connection broken")
                ELSE RawError("ReadError", "Connection broken")

Event(ev, p, value, err) == [ev |-> ev, pos |-> p, value |-> value, err |-> err]

\* the loop from the p-th line on, up to the next yield or the end of the
\* pass
RECURSIVE RunFrom(_, _, _, _)
RunFrom(c, ls, p, brk) ==
  IF p = Len(ls)
    THEN IF brk THEN Event("error", p, 0, StreamBroken(c))
                ELSE Event("eof", p, 0, NoExc)
  ELSE LET step == ProcessLine(c, ls[p + 1]) IN
    CASE step.t = "skip" -> RunFrom(c, ls, p + 1, brk)
      [] step.t = "stop" -> Event("sentinel", p + 1, 0, NoExc)
      [] step.t = "yield" -> Event("yield", p + 1, step.value, NoExc)
      [] OTHER -> Event("error", p + 1, 0, step.err)

\* the exits of a pass over an open response on which the response is
\* closed: the finally clause of the blocking client and the async with
\* block of the asynchronous client cover every one of them
ExitEvents == {"sentinel", "eof", "error", "close", "status"}
\* ClosesResponse with the close placed after the loop instead of in a
\* finally clause
ClosesResponseAfterLoop(ev) == ev \in {"sentinel", "eof"}

ClosesResponse(ev) == ev \in ExitEvents

\* the request of the pass, sent by the first pull
\*   sync:  self._make_request(..., stream=True)
\*   async: self.client.stream(...) and response.raise_for_status()
OpenStream(c) ==
  IF c = "sync"
    THEN LET r == _make_request(c, net, served, body, max_retries) IN
      IF r.t = "raise"
        THEN [opened |-> FALSE, ok |-> FALSE, err |-> r.err]
        ELSE [opened |-> TRUE, ok |-> TRUE, err |-> NoExc]
    ELSE LET r == ClientRequest(net, served, body) IN
      IF r.t = "exc"
        THEN [opened |-> FALSE, ok |-> FALSE,
              err |-> RawError(r.exc, "transport failure")]
      ELSE IF HttpxRaises(r.status)
        THEN [opened |-> TRUE, ok |-> FALSE,
              err |-> RawError("HTTPStatusError", StrOfHTTPError(c, r.status))]
      ELSE [opened |-> TRUE, ok |-> TRUE, err |-> NoExc]

\* what a pull gives its consumer: the chunk, the end of the sequence or
\* the exception that leaves the generator
Signal(ev) ==
  CASE ev = "yield" -> "chunk"
    [] ev \in {"error", "status"} -> "raise"
    [] OTHER -> "end"

\* what a pull does once the response is open
Advance(c) ==
  LET e == RunFrom(c, lines, pos[c], broken) IN
    /\ pos' = [pos EXCEPT ![c] = e.pos]
    /\ last' = [last EXCEPT ![c] = Signal(e.ev)]
    /\ IF e.ev = "yield"
         THEN /\ chunks' = [chunks EXCEPT ![c] = Append(@, e.value)]
              /\ pc' = [pc EXCEPT ![c] = "suspended"]
              /\ UNCHANGED <<outcome, released>>
         ELSE /\ pc' = [pc EXCEPT ![c] = "done"]
              /\ outcome' = [outcome EXCEPT ![c] =
                   IF e.ev = "error" THEN Outcome("raise", e.err)
                                     ELSE Outcome("end", NoExc)]
              /\ released' = [released EXCEPT ![c] =
                   IF ClosesResponse(e.ev) THEN @ + 1 ELSE @]
              /\ UNCHANGED chunks

\* the consumer's first pull: the request is sent, then the loop runs
FirstPull(c) ==
  /\ pc[c] = "created"
  /\ LET o == OpenStream(c) IN
       /\ opened' = [opened EXCEPT ![c] = o.opened]
       /\ IF o.ok
            THEN Advance(c)
            ELSE /\ pc' = [pc EXCEPT ![c] = "done"]
                 /\ outcome' = [outcome EXCEPT ![c] = Outcome("raise", o.err)]
                 /\ released' = [released EXCEPT ![c] =
                      IF o.opened /\ ClosesResponse("status") THEN @ + 1 ELSE @]
                 /\ last' = [last EXCEPT ![c] = Signal("status")]
                 /\ UNCHANGED <<pos, chunks>>
  /\ sent' = [sent EXCEPT ![c] = 1]
  /\ UNCHANGED <<envVars, callVars, objectVars>>

\* a later pull resumes the loop after the yield
Pull(c) ==
  /\ pc[c] = "suspended"
  /\ Advance(c)
  /\ UNCHANGED <<opened, envVars, callVars, sent, objectVars>>

\* the consumer closes the sequence: GeneratorExit is raised at the yield,
\* or the generator was never started
Close(c) ==
  /\ pc[c] \in {"created", "suspended"}
  /\ pc' = [pc EXCEPT ![c] = "done"]
  /\ outcome' = [outcome EXCEPT ![c] = Outcome("closed", NoExc)]
  /\ released' = [released EXCEPT ![c] =
       IF pc[c] = "suspended" /\ ClosesResponse("close") THEN @ + 1 ELSE @]
  /\ UNCHANGED <<pos, chunks, opened, last, envVars, callVars, sent,
                 objectVars>>

\* PullAfterEnd of a sequence that resumes its loop when it is pulled
\* after its end
PullAfterEndReadsOn(c) ==
  /\ pc[c] = "done"
  /\ Advance(c)
  /\ UNCHANGED <<opened, envVars, callVars, sent, objectVars>>

\* a pull after the pass has ended: the generator is exhausted, the
\* consumer gets StopIteration (StopAsyncIteration) and nothing of the
\* generator's body runs
PullAfterEnd(c) ==
  /\ pc[c] = "done"
  /\ last' = [last EXCEPT ![c] = "end"]
  /\ UNCHANGED <<pc, pos, chunks, outcome, opened, released, envVars,
                 callVars, sent, objectVars>>

(***************************************************************************)
(* chat_completion: validation and the payload.                            *)
(*   A message is a record: type is "dict", "ChatMessage" or "other", keys *)
(*   the keys of the dict or the fields of the ChatMessage that are not    *)
(*   None.  Option values are strings; "None" is Python's None.            *)
(***************************************************************************)
MessageFields == {"role", "content", "name", "tool_calls", "tool_call_id"}

Message(type, keys) == [type |-> type, keys |-> keys]

\* ChatMessage.to_dict: role and content always, the rest when not None
to_dict(msg) == Message("dict", {"role", "content"} \cup (msg.keys \cap MessageFields))

ValueError(message) == RawError("ValueError", message)

Validated(msgs) == [t |-> "ok", messages |-> msgs, err |-> NoExc]
Invalid(e) == [t |-> "raise", messages |-> <<>>, err |-> e]

\* the loop of _validate_chat_params over the messages
RECURSIVE ValidateMessages(_, _, _)
ValidateMessages(c, msgs, acc) ==
  IF msgs = <<>> THEN Validated(acc)
  ELSE LET msg == Head(msgs) IN
    IF msg.type = "dict"
      THEN IF "role" \notin msg.keys \/ "content" \notin msg.keys
             THEN Invalid(ValueError(
                    IF c = "sync"
                      THEN "Message needs 'role' and 'content' keys"
                      ELSE "Each message must have 'role' and 'content' keys"))
             ELSE ValidateMessages(c, Tail(msgs), Append(acc, msg))
    ELSE IF msg.type = "ChatMessage"
      THEN ValidateMessages(c, Tail(msgs), Append(acc, to_dict(msg)))
    ELSE Invalid(ValueError(
           IF c = "sync" THEN "Message must be dict or ChatMessage"
           ELSE "Each message must be a dict or ChatMessage instance"))

\* model is a record: is_str and the text; messages a record: is_list and
\* the items
_validate_chat_params(c, model, messages) ==
  IF ~model.is_str \/ RStrip(LStrip(model.text)) = <<>>
    THEN Invalid(ValueError(IF c = "sync" THEN "Model must be non-empty string"
                            ELSE "Model must be a non-empty string"))
  ELSE IF ~messages.is_list \/ messages.items = <<>>
    THEN Invalid(ValueError(IF c = "sync" THEN "Messages must be non-empty list"
                            ELSE "Messages must be a non-empty list"))
  ELSE ValidateMessages(c, messages.items, <<>>)

\* the options tested with "is not None", in the order of the code
SimpleOptions ==
  {"temperature", "max_tokens", "top_p", "frequency_penalty",
   "presence_penalty", "stop", "tools", "tool_choice", "reasoning"}
NamedOptions == SimpleOptions \cup {"stream", "stream_options"}
RequiredKeys == {"model", "messages"}

\* keys a caller can pass that are no parameter of chat_completion
ExtraKeys == {"seed"}

\* stream_options: a dict is used as it is, a StreamOptions is converted
\* with to_dict()
StreamOptionsValue(v) == IF v = "dict" THEN v ELSE "to_dict"

\* the parameter stream: bool = False when the caller passes none
StreamParam(stream) == IF stream = "unset" THEN "False" ELSE stream

\* if stream: data["stream"] = True
StreamKey(stream) == IF StreamParam(stream) = "True" THEN {"stream"} ELSE {}

\* data.update(kwargs) over the mapping assembled from the named options
BuildPayload(a) ==
  LET named == {k \in SimpleOptions : a.opts[k] # "None"}
      so == IF a.stream_options # "None" THEN {"stream_options"} ELSE {}
      data == [k \in RequiredKeys \cup StreamKey(a.stream) \cup named \cup so |->
                 CASE k = "model" -> "model"
                   [] k = "messages" -> "messages"
                   [] k = "stream" -> "True"
                   [] k = "stream_options" ->
                        StreamOptionsValue(a.stream_options)
                   [] OTHER -> a.opts[k]]
  IN a.kwargs @@ data

\* the arguments of a call of chat_completion
Args(model, messages, stream, opts, stream_options, kwargs) ==
  [model |-> model, messages |-> messages, stream |-> stream, opts |-> opts,
   stream_options |-> stream_options, kwargs |-> kwargs]

NoOptions == [k \in SimpleOptions |-> "None"]
NoKwargs == [k \in {} |-> "None"]
NoArgs ==
  Args([is_str |-> FALSE, text |-> <<>>], [is_list |-> FALSE, items |-> <<>>],
       "unset", NoOptions, "None", NoKwargs)
NoPayload == [k \in {} |-> "None"]
Generator == [t |-> "generator", status |-> 0, body |-> BodyHtml,
              err |-> NoExc]

\* return response.json(): the body of a returned response is decoded
\* outside the try block of _make_request
JsonOf(r) ==
  IF r.t = "return" /\ ~r.body.json
    THEN Raise(RawError("JSONDecodeError", "Expecting value"))
    ELSE r

\* the names of the parameters of chat_completion
ParameterNames == RequiredKeys \cup NamedOptions

\* the binding of the arguments to the parameters when chat_completion is
\* called.  model, messages, stream, opts and stream_options of a hold the
\* arguments the caller passes for the named parameters, positionally or
\* by keyword; kwargs holds the keyword arguments passed beside them.  A
\* keyword of kwargs that names a parameter is a second value for it, and
\* Python raises TypeError before the body of the function runs; the other
\* keywords are collected in **kwargs.
BindArguments(a) ==
  IF DOMAIN a.kwargs \cap ParameterNames # {}
    THEN Invalid(RawError("TypeError",
                          "chat_completion() got multiple values for argument"))
    ELSE Validated(<<>>)

\* ChatCompletion of a client that sends the request of a stream when it
\* is called instead of at the first pull
ChatCompletionEager(c, a) ==
  LET b == BindArguments(a)
      v == IF b.t = "raise" THEN b
           ELSE _validate_chat_params(c, a.model, a.messages)
  IN
    /\ call' = [client |-> c, op |-> "chat_completion", args |-> a]
    /\ IF v.t = "raise"
         THEN /\ result' = Raise(v.err)
              /\ payload' = NoPayload
              /\ sent' = [sent EXCEPT ![c] = 0]
              /\ UNCHANGED streamVars
         ELSE /\ payload' = BuildPayload(a)
              /\ IF StreamParam(a.stream) = "True"
                   THEN /\ result' = Generator
                        /\ sent' = [sent EXCEPT ![c] = 1]
                        /\ pc' = [pc EXCEPT ![c] = "created"]
                        /\ pos' = [pos EXCEPT ![c] = 0]
                        /\ chunks' = [chunks EXCEPT ![c] = <<>>]
                        /\ outcome' = [outcome EXCEPT ![c] =
                                         Outcome("none", NoExc)]
                        /\ opened' = [opened EXCEPT ![c] = FALSE]
                        /\ released' = [released EXCEPT ![c] = 0]
                        /\ last' = [last EXCEPT ![c] = "none"]
                   ELSE /\ result' = JsonOf(_make_request(c, net, served, body,
                                                          max_retries))
                        /\ sent' = [sent EXCEPT ![c] = 1]
                        /\ UNCHANGED streamVars
    /\ UNCHANGED <<envVars, objectVars>>

\* chat_completion(model, messages, stream, ..., **kwargs)
ChatCompletion(c, a) ==
  LET b == BindArguments(a)
      v == IF b.t = "raise" THEN b
           ELSE _validate_chat_params(c, a.model, a.messages)
  IN
    /\ call' = [client |-> c, op |-> "chat_completion", args |-> a]
    /\ IF v.t = "raise"
         THEN /\ result' = Raise(v.err)
              /\ payload' = NoPayload
              /\ sent' = [sent EXCEPT ![c] = 0]
              /\ UNCHANGED streamVars
         ELSE /\ payload' = BuildPayload(a)
              /\ IF StreamParam(a.stream) = "True"
                   THEN /\ result' = Generator
                        /\ sent' = [sent EXCEPT ![c] = 0]
                        /\ pc' = [pc EXCEPT ![c] = "created"]
                        /\ pos' = [pos EXCEPT ![c] = 0]
                        /\ chunks' = [chunks EXCEPT ![c] = <<>>]
                        /\ outcome' = [outcome EXCEPT ![c] =
                                         Outcome("none", NoExc)]
                        /\ opened' = [opened EXCEPT ![c] = FALSE]
                        /\ released' = [released EXCEPT ![c] = 0]
                        /\ last' = [last EXCEPT ![c] = "none"]
                   ELSE /\ result' = JsonOf(_make_request(c, net, served, body,
                                                          max_retries))
                        /\ sent' = [sent EXCEPT ![c] = 1]
                        /\ UNCHANGED streamVars
    /\ UNCHANGED <<envVars, objectVars>>

\* models_list()
ModelsList(c) ==
  /\ call' = [client |-> c, op |-> "models_list", args |-> NoArgs]
  /\ result' = JsonOf(_make_request(c, net, served, body, max_retries))
  /\ sent' = [sent EXCEPT ![c] = 1]
  /\ UNCHANGED <<payload, streamVars, envVars, objectVars>>

\* model_retrieve(model)
ModelRetrieve(c) ==
  /\ call' = [client |-> c, op |-> "model_retrieve", args |-> NoArgs]
  /\ result' = JsonOf(_make_request(c, net, served, body, max_retries))
  /\ sent' = [sent EXCEPT ![c] = 1]
  /\ UNCHANGED <<payload, streamVars, envVars, objectVars>>

InitCallVars ==
  /\ call = [client |-> "none", op |-> "none", args |-> NoArgs]
  /\ payload = NoPayload
  /\ result = NoResult
  /\ sent = [c \in Clients |-> 0]

(***************************************************************************)
(* The client objects: __init__, close and the context manager methods.    *)
(*   A credential is a string; "None" is Python's None and "" the empty    *)
(*   string.  default_headers is a record: given says whether the caller   *)
(*   passed a mapping, items is the mapping.  A header value is a sequence *)
(*   of strings.                                                           *)
(***************************************************************************)
\* the truth value of an Optional[str], as "or", "not" and "if" test it
Truthy(v) == v \notin {"None", ""}

\* f"Bearer {self.api_key}"
Bearer(api_key) == <<"Bearer", api_key>>

\* the headers both constructors set themselves
OwnHeaders(api_key) ==
  [k \in {"Authorization", "Content-Type"} |->
     IF k = "Authorization" THEN Bearer(api_key) ELSE <<"application/json">>]

\* if default_headers: headers.update(default_headers)
MergeHeaders(headers, default_headers) ==
  IF default_headers.given /\ DOMAIN default_headers.items # {}
    THEN default_headers.items @@ headers
    ELSE headers

NoHeaders == [k \in {} |-> <<>>]
NoDefaultHeaders == [given |-> FALSE, items |-> NoHeaders]

\* the arguments of a constructor call and the environment it runs in:
\* environ is os.getenv("ROUTEWAY_API_KEY"), httpx whether the import of
\* httpx succeeded (HTTPX_AVAILABLE)
CtorArgs(api_key, environ, default_headers, httpx) ==
  [api_key |-> api_key, environ |-> environ,
   default_headers |-> default_headers, httpx |-> httpx]

\* a client object: sessions counts the connection resources created for
\* it (requests.Session, httpx.AsyncClient), closed the calls of close()
Object(state, api_key, headers, sessions, err) ==
  [state |-> state, api_key |-> api_key, headers |-> headers,
   sessions |-> sessions, closed |-> 0, err |-> err]

NoClient == Object("none", "None", NoHeaders, 0, NoExc)

\* ResolveCredential with the environment taking precedence
ResolveCredentialEnvFirst(a) ==
  IF Truthy(a.environ) THEN a.environ ELSE a.api_key

\* self.api_key = api_key or os.getenv("ROUTEWAY_API_KEY")
ResolveCredential(a) ==
  IF Truthy(a.api_key) THEN a.api_key ELSE a.environ

\* RoutewayClient(...) and AsyncRoutewayClient(...): the object built, or
\* the exception that leaves the constructor
Construct(c, a) ==
  IF c = "async" /\ ~a.httpx
    THEN Object("failed", "None", NoHeaders, 0,
                RawError("ImportError", "httpx is required for async support."))
  ELSE LET api_key == ResolveCredential(a) IN
    IF ~Truthy(api_key)
      THEN Object("failed", "None", NoHeaders, 0,
                  RoutewayAuthError(
                    IF c = "sync"
                      THEN "API key required. Set ROUTEWAY_API_KEY or pass api_key."
                      ELSE "API key is required."))
      ELSE Object("constructed", api_key,
                  MergeHeaders(OwnHeaders(api_key), a.default_headers), 1, NoExc)

\* the constructor call of client c
__init__(c) ==
  /\ client[c].state = "none"
  /\ client' = [client EXCEPT ![c] = Construct(c, ctor)]
  /\ UNCHANGED <<ctor, scope, streams, envVars, streamVars, callVars, sent>>

\* close(): self.session.close() and await self.client.aclose()
close(c) ==
  /\ client[c].state = "constructed"
  /\ client[c].closed < MaxCloses
  /\ client' = [client EXCEPT ![c].closed = @ + 1]
  /\ UNCHANGED <<ctor, scope, streams, envVars, streamVars, callVars, sent>>

\* a scope: pc is "out" (before the with statement), "in" (inside its
\* block) or "left"; exc is the exception the block raised and raised the
\* exception the with statement lets through to its caller
Scope(p, exc, raised) == [pc |-> p, exc |-> exc, raised |-> raised]

\* __enter__ and __aenter__ return self
__enter__(c) ==
  /\ client[c].state = "constructed"
  /\ scope[c].pc = "out"
  /\ scope' = [scope EXCEPT ![c] = Scope("in", NoExc, NoExc)]
  /\ UNCHANGED <<ctor, client, streams, envVars, streamVars, callVars, sent>>

\* how the block of a with statement can end: normally, or by an exception
BlockExits ==
  {NoExc, RawError("KeyError", "raised in the block"),
   RoutewayHTTPError("raised in the block")}

\* ExitResult of a context manager that swallows the exception
ExitResultTrue == "True"

\* what __exit__ and __aexit__ return: neither has a return statement
ExitResult == "None"

\* the block ends with exc (NoExc: normally): __exit__ (__aexit__) calls
\* close(), and the with statement re-raises exc unless the method
\* returned a true value
__exit__(c, exc) ==
  /\ scope[c].pc = "in"
  /\ client' = [client EXCEPT ![c].closed = @ + 1]
  /\ scope' = [scope EXCEPT ![c] =
       Scope("left", exc, IF Truthy(ExitResult) THEN NoExc ELSE exc)]
  /\ UNCHANGED <<ctor, streams, envVars, streamVars, callVars, sent>>

\* the client objects of the specifications that are about calls: built
\* with an explicit credential and no default headers
PlainCtor == CtorArgs("k", "None", NoDefaultHeaders, TRUE)

NoStreams == <<>>

InitConstructed ==
  /\ ctor = PlainCtor
  /\ client = [c \in Clients |-> Construct(c, PlainCtor)]
  /\ scope = [c \in Clients |-> Scope("out", NoExc, NoExc)]

(***************************************************************************)
(* Several decode passes on one client.  Every call of                     *)
(* chat_completion(stream=True) returns a generator of its own: response   *)
(* and the loop over its lines are locals of the generator, and the only   *)
(* object the generators of a client share is self.session (self.client),  *)
(* the connection pool.  A record of streams holds the locals of one       *)
(* generator and the lines its response delivers.                          *)
(***************************************************************************)
Stream(c, ls, brk) ==
  [client |-> c, lines |-> ls, broken |-> brk, pc |-> "created", pos |-> 0,
   chunks |-> <<>>, outcome |-> Outcome("none", NoExc), opened |-> FALSE,
   released |-> 0, last |-> "none"]

\* ReleasedOnExit of a generator that closes the session with the response
ReleasedOnExitWithPool(ev) ==
  IF ev \in ExitEvents THEN {"response", "pool"} ELSE {}

\* what an exit of a pass releases: response.close() in the finally clause
\* and the exit of the async with block close the response of the pass;
\* neither touches self.session or self.client
ReleasedOnExit(ev) == IF ClosesResponse(ev) THEN {"response"} ELSE {}

\* the generator st after the exit ev of its pass
Exited(st, ev, out) ==
  [st EXCEPT !.pc = "done",
             !.outcome = out,
             !.released = IF "response" \in ReleasedOnExit(ev) THEN @ + 1 ELSE @]

\* the generator st resumed: the loop runs up to the next yield or to the
\* end of the pass
Resumed(st) ==
  LET e == RunFrom(st.client, st.lines, st.pos, st.broken)
      read == [st EXCEPT !.pos = e.pos, !.last = Signal(e.ev)]
  IN IF e.ev = "yield"
       THEN [ev |-> e.ev,
             st |-> [read EXCEPT !.chunks = Append(@, e.value),
                                 !.pc = "suspended"]]
       ELSE [ev |-> e.ev,
             st |-> Exited(read, e.ev,
                           IF e.ev = "error" THEN Outcome("raise", e.err)
                                             ELSE Outcome("end", NoExc))]

\* the generator st started: the request is sent, then the loop runs
Started(st) ==
  LET o == OpenStream(st.client)
      sent_st == [st EXCEPT !.opened = o.opened]
  IN IF o.ok THEN Resumed(sent_st)
     ELSE [ev |-> "status",
           st |-> IF o.opened
                    THEN Exited([sent_st EXCEPT !.last = Signal("status")],
                                "status", Outcome("raise", o.err))
                    ELSE [sent_st EXCEPT !.pc = "done",
                                         !.last = Signal("status"),
                                         !.outcome = Outcome("raise", o.err)]]

\* a step of generator s that ends with the event r.ev: only the record of
\* s changes, and the pool of its client when the exit releases it
StreamStep(s, r) ==
  /\ streams' = [streams EXCEPT ![s] = r.st]
  /\ client' = [client EXCEPT ![streams[s].client].closed =
                  IF "pool" \in ReleasedOnExit(r.ev) THEN @ + 1 ELSE @]
  /\ UNCHANGED <<ctor, scope, envVars, streamVars, callVars, sent>>

\* the first pull from generator s
StreamFirstPull(s) ==
  /\ streams[s].pc = "created"
  /\ StreamStep(s, Started(streams[s]))

\* a later pull from generator s
StreamPull(s) ==
  /\ streams[s].pc = "suspended"
  /\ StreamStep(s, Resumed(streams[s]))

\* the consumer closes generator s
StreamClose(s) ==
  /\ streams[s].pc \in {"created", "suspended"}
  /\ StreamStep(s,
       IF streams[s].pc = "suspended"
         THEN [ev |-> "close",
               st |-> Exited(streams[s], "close", Outcome("closed", NoExc))]
         ELSE [ev |-> "none",
               st |-> [streams[s] EXCEPT !.pc = "done",
                                        !.outcome = Outcome("closed", NoExc)]])

\* a pull from generator s after its pass has ended
StreamPullAfterEnd(s) ==
  /\ streams[s].pc = "done"
  /\ StreamStep(s, [ev |-> "none", st |-> [streams[s] EXCEPT !.last = "end"]])

(***************************************************************************)
(* SpecStream: both clients decode the stream of the same server.          *)
(***************************************************************************)
LineSeqs(n) == UNION {[1..k -> StreamLines] : k \in 0..n}

Healthy == [i \in 1..(MaxRetries + 1) |-> 200]

\* runs in which the request itself goes wrong carry a short stream
ShortStreams == {<<>>, <<LineOne, LineDone>>}

InitEnvStream ==
  \/ /\ max_retries = MaxRetries
     /\ net = "ok"
     /\ served = Healthy
     /\ body = BodyObject
     /\ lines \in LineSeqs(MaxLines)
     /\ broken \in BOOLEAN
  \/ /\ max_retries \in 0..MaxRetries
     /\ net \in NetOutcomes
     /\ served \in [1..(MaxRetries + 1) -> Statuses]
     /\ body \in {BodyHtml, BodyBadKey}
     /\ lines \in ShortStreams
     /\ broken = FALSE

InitStreamVars ==
  /\ pc = [c \in Clients |-> "created"]
  /\ pos = [c \in Clients |-> 0]
  /\ chunks = [c \in Clients |-> <<>>]
  /\ outcome = [c \in Clients |-> Outcome("none", NoExc)]
  /\ opened = [c \in Clients |-> FALSE]
  /\ released = [c \in Clients |-> 0]
  /\ last = [c \in Clients |-> "none"]

InitStream ==
  /\ InitEnvStream
  /\ InitStreamVars
  /\ InitCallVars
  /\ InitConstructed
  /\ streams = NoStreams

NextStream ==
  \E c \in Clients : FirstPull(c) \/ Pull(c) \/ Close(c) \/ PullAfterEnd(c)

SpecStream == InitStream /\ [][NextStream]_vars

(***************************************************************************)
(* Properties of the streaming decoder.                                    *)
(***************************************************************************)
IsPrefixOf(s, t) == Len(s) <= Len(t) /\ SubSeq(t, 1, Len(s)) = s

\* the request of the pass was answered 2xx at the first attempt
HealthyRun == net = "ok" /\ served = Healthy

\* the text of a line as a reader of the wire format sees it
IsDataLine(line) == StartsWith(line, Prefix)
PayloadOf(line) == SubSeq(line, Len(Prefix) + 1, Len(line))
IsSentinelLine(line) == IsDataLine(line) /\ PayloadOf(line) = Sentinel
IsValidDataLine(line) ==
  /\ IsDataLine(line)
  /\ Utf8Valid(line)
  /\ ~IsSentinelLine(line)
  /\ JsonValid(PayloadOf(line))

SawSentinel(c) == \E i \in 1..pos[c] : IsSentinelLine(lines[i])

\* C1: once a decoder (sync or async) has read the first "data: [DONE]"
\* line, it reads no further line and yields no further chunk, whatever
\* follows the sentinel in the stream.
C1_NothingAfterSentinel ==
  [][\A c \in Clients :
       SawSentinel(c) => pos'[c] = pos[c] /\ chunks'[c] = chunks[c]]_vars

\* both decoders stopped at a sentinel that a valid data line follows
C1_Witness ==
  \A c \in Clients :
    /\ pc[c] = "done"
    /\ pos[c] >= 1
    /\ pos[c] < Len(lines)
    /\ IsSentinelLine(lines[pos[c]])
    /\ IsValidDataLine(lines[pos[c] + 1])

\* the payloads of the valid data lines that precede the first sentinel
RECURSIVE ExpectedChunks(_)
ExpectedChunks(ls) ==
  IF ls = <<>> THEN <<>>
  ELSE IF IsSentinelLine(Head(ls)) THEN <<>>
  ELSE IF IsValidDataLine(Head(ls))
    THEN <<JsonLoads(PayloadOf(Head(ls)))>> \o ExpectedChunks(Tail(ls))
  ELSE ExpectedChunks(Tail(ls))

\* C2: the chunks a decoder yields are exactly the decoded payloads of the
\* valid "data: " lines before the first sentinel, in the order received;
\* every other line yields nothing, raises nothing and does not end the
\* sequence.
C2_ChunksAreValidDataLines ==
  \A c \in Clients :
    HealthyRun =>
      /\ IsPrefixOf(chunks[c], ExpectedChunks(lines))
      /\ (pc[c] = "done" /\ outcome[c].t # "closed" /\ ~broken =>
            /\ outcome[c].t = "end"
            /\ chunks[c] = ExpectedChunks(lines))

\* a "data: " line whose payload does not decode as JSON
IsMalformedDataLine(line) ==
  /\ IsDataLine(line)
  /\ ~IsSentinelLine(line)
  /\ ~(Utf8Valid(line) /\ JsonValid(PayloadOf(line)))

\* C3: a "data: " line whose payload is not valid JSON is skipped: the pass
\* raises nothing because of it and still yields every later valid data
\* line before the sentinel, for any number of malformed lines.
C3_MalformedLinesSkipped ==
  \A c \in Clients :
    (/\ HealthyRun
     /\ ~broken
     /\ \E i \in 1..Len(lines) : IsMalformedDataLine(lines[i])
     /\ \A i \in 1..Len(lines) : IsDataLine(lines[i]) \/ Utf8Valid(lines[i])
     /\ pc[c] = "done"
     /\ outcome[c].t # "closed")
    => /\ outcome[c].t = "end"
       /\ chunks[c] = ExpectedChunks(lines)

\* C4: a decode pass that opened a response closes it exactly once, when
\* the pass ends (sentinel, end of input, consumer close or stream error),
\* never before and never a second time; a pass that opened none closes
\* none.
C4_ReleasedExactlyOnce ==
  \A c \in Clients :
    released[c] = IF opened[c] /\ pc[c] = "done" THEN 1 ELSE 0

\* the blocking pass was closed by its consumer after a chunk, the
\* asynchronous pass ended by a transport error of the stream, and each
\* closed its response once
C4_Witness ==
  /\ opened["sync"] /\ opened["async"]
  /\ outcome["sync"].t = "closed"
  /\ Len(chunks["sync"]) >= 1
  /\ released["sync"] = 1
  /\ outcome["async"].t = "raise"
  /\ outcome["async"].err = StreamBroken("async")
  /\ released["async"] = 1

\* what a caller can tell about an exception: its Error kind, or that it is
\* a bare RoutewayError, or that it is no RoutewayError at all
CallerKind(e) ==
  IF KindOf(e) # "none" THEN KindOf(e)
  ELSE IF e.cls = "RoutewayError" THEN "RoutewayError"
  ELSE "raw"

\* C5: for the same server behaviour the blocking and the asynchronous
\* decoder yield the same chunks and end the same way (normal end, or an
\* error of the same kind).
C5_SameDecoder ==
  (\A c \in Clients : pc[c] = "done" /\ outcome[c].t # "closed") =>
    /\ chunks["sync"] = chunks["async"]
    /\ outcome["sync"].t = outcome["async"].t
    /\ CallerKind(outcome["sync"].err) = CallerKind(outcome["async"].err)

(***************************************************************************)
(* SpecRequest: one client after the other calls models_list,              *)
(* model_retrieve or the non-streaming chat_completion against every       *)
(* behaviour of the server and the network.                                *)
(***************************************************************************)
ModelM == [is_str |-> TRUE, text |-> <<"m">>]
UserMessage == Message("dict", {"role", "content"})
OneMessage == [is_list |-> TRUE, items |-> <<UserMessage>>]

PlainArgs == Args(ModelM, OneMessage, "False", NoOptions, "None", NoKwargs)

InitIdleStream ==
  /\ pc = [c \in Clients |-> "none"]
  /\ pos = [c \in Clients |-> 0]
  /\ chunks = [c \in Clients |-> <<>>]
  /\ outcome = [c \in Clients |-> Outcome("none", NoExc)]
  /\ opened = [c \in Clients |-> FALSE]
  /\ released = [c \in Clients |-> 0]
  /\ last = [c \in Clients |-> "none"]

InitRequest ==
  /\ max_retries \in 0..MaxRetries
  /\ net \in NetOutcomes
  /\ served \in [1..(MaxRetries + 1) -> Statuses]
  /\ body \in Bodies
  /\ lines = <<>>
  /\ broken = FALSE
  /\ InitIdleStream
  /\ InitCallVars
  /\ InitConstructed
  /\ streams = NoStreams

NextRequest ==
  \E c \in Clients :
    \/ ModelsList(c)
    \/ ModelRetrieve(c)
    \/ ChatCompletion(c, PlainArgs)

SpecRequest == InitRequest /\ [][NextRequest]_vars

(***************************************************************************)
(* SpecBuild: chat_completion with every combination of options against a  *)
(* server that answers 200.                                                *)
(***************************************************************************)
OptionValues == {"None", "v"}
StreamValues == {"unset", "False", "True"}
StreamOptionsValues == {"None", "dict", "StreamOptions"}
KwargsSets == UNION {[K -> OptionValues] : K \in SUBSET ExtraKeys}

\* keyword arguments passed beside the named ones of which at least one
\* names a parameter, with a value ("w") that differs from the named one
CollidingKeys == {"model", "temperature"}
CollidingKwargs ==
  UNION {[K -> {"w"}] : K \in {K \in SUBSET (ExtraKeys \cup CollidingKeys) :
                                K \cap CollidingKeys # {}}}

Models ==
  {ModelM, [is_str |-> TRUE, text |-> <<>>], [is_str |-> TRUE, text |-> <<" ">>],
   [is_str |-> FALSE, text |-> <<>>]}

Messages ==
  {UserMessage, Message("dict", {"role"}), Message("dict", {"content"}),
   Message("ChatMessage", {"role", "content"}),
   Message("ChatMessage", {"role", "content", "name"}),
   Message("other", {})}

MessageLists ==
  {[is_list |-> FALSE, items |-> <<>>], [is_list |-> TRUE, items |-> <<>>]}
    \cup {[is_list |-> TRUE, items |-> <<m>>] : m \in Messages}
    \cup {[is_list |-> TRUE, items |-> <<UserMessage, m>>] : m \in Messages}

\* every combination of options with one valid model and message list,
\* every model and message list without options, and the calls that pass a
\* second value for a parameter
BuildArgs ==
  {Args(ModelM, OneMessage, st, o, so, kw) :
     st \in StreamValues, o \in [SimpleOptions -> OptionValues],
     so \in StreamOptionsValues, kw \in KwargsSets}
  \cup
  {Args(mo, ml, st, NoOptions, "None", NoKwargs) :
     mo \in Models, ml \in MessageLists, st \in StreamValues}
  \cup
  {Args(ModelM, OneMessage, st, o, "None", kw) :
     st \in StreamValues,
     o \in {NoOptions, [NoOptions EXCEPT !["temperature"] = "v"]},
     kw \in CollidingKwargs}

InitBuild ==
  /\ max_retries = MaxRetries
  /\ net = "ok"
  /\ served = Healthy
  /\ body = BodyObject
  /\ lines = <<>>
  /\ broken = FALSE
  /\ InitIdleStream
  /\ call \in {[client |-> "none", op |-> "none", args |-> a] : a \in BuildArgs}
  /\ payload = NoPayload
  /\ result = NoResult
  /\ sent = [c \in Clients |-> 0]
  /\ InitConstructed
  /\ streams = NoStreams

NextBuild == \E c \in Clients : ChatCompletion(c, call.args)

SpecBuild == InitBuild /\ [][NextBuild]_vars

(***************************************************************************)
(* SpecClient: the construction of both clients with every combination of  *)
(* credential sources and default headers, close() and the with statement. *)
(***************************************************************************)
Credentials == {"None", "", "k"}
EnvCredentials == {"None", "", "e"}
HeaderNames == {"Authorization", "Content-Type", "X-Trace"}

DefaultHeaders ==
  {NoDefaultHeaders}
    \cup {[given |-> TRUE, items |-> h] :
            h \in UNION {[K -> {<<"caller">>}] : K \in SUBSET HeaderNames}}

InitClient ==
  /\ ctor \in {CtorArgs(k, e, h, x) :
                 k \in Credentials, e \in EnvCredentials,
                 h \in DefaultHeaders, x \in BOOLEAN}
  /\ client = [c \in Clients |-> NoClient]
  /\ scope = [c \in Clients |-> Scope("out", NoExc, NoExc)]
  /\ streams = NoStreams
  /\ max_retries = MaxRetries
  /\ net = "ok"
  /\ served = Healthy
  /\ body = BodyObject
  /\ lines = <<>>
  /\ broken = FALSE
  /\ InitIdleStream
  /\ InitCallVars

NextClient ==
  \E c \in Clients :
    \/ __init__(c)
    \/ close(c)
    \/ __enter__(c)
    \/ \E exc \in BlockExits : __exit__(c, exc)

SpecClient == InitClient /\ [][NextClient]_vars

(***************************************************************************)
(* SpecConcurrent: several generators of one client, each with a response  *)
(* of its own, pulled and closed in any order.                             *)
(***************************************************************************)
StreamIds == 1..MaxStreams

\* the responses of the generators: chunks before a sentinel, a malformed
\* line between chunks, lines after the sentinel, and a stream that breaks
\* after its second chunk
ConcurrentResponses ==
  {[lines |-> <<LineOne, LineTwo, LineDone>>, broken |-> FALSE],
   [lines |-> <<LineTwo, LineBad, LineOne>>, broken |-> FALSE],
   [lines |-> <<LineOne, LineDone, LineTwo>>, broken |-> FALSE],
   [lines |-> <<LineTwo, LineOne>>, broken |-> TRUE]}

InitConcurrent ==
  /\ \E c \in Clients :
       streams \in [StreamIds -> {Stream(c, r.lines, r.broken) :
                                    r \in ConcurrentResponses}]
  /\ max_retries = MaxRetries
  /\ net = "ok"
  /\ served = Healthy
  /\ body = BodyObject
  /\ lines = <<>>
  /\ broken = FALSE
  /\ InitIdleStream
  /\ InitCallVars
  /\ InitConstructed

NextConcurrent ==
  \E s \in StreamIds :
    \/ StreamFirstPull(s)
    \/ StreamPull(s)
    \/ StreamClose(s)
    \/ StreamPullAfterEnd(s)

SpecConcurrent == InitConcurrent /\ [][NextConcurrent]_vars

(***************************************************************************)
(* SpecLazy: chat_completion(stream=True) and the sequence it returns,     *)
(* against every behaviour of the server and the network.  The arguments   *)
(* of the calls of a run are drawn at its start: a valid call or a call    *)
(* that fails validation.                                                  *)
(***************************************************************************)
BlankModelM == [is_str |-> TRUE, text |-> <<" ">>]

LazyArgs ==
  {Args(mo, OneMessage, "True", NoOptions, "None", NoKwargs) :
     mo \in {ModelM, BlankModelM}}

InitLazy ==
  /\ max_retries \in 0..MaxRetries
  /\ net \in NetOutcomes
  /\ served \in [1..(MaxRetries + 1) -> Statuses]
  /\ body = BodyHtml
  /\ lines \in ShortStreams
  /\ broken = FALSE
  /\ InitIdleStream
  /\ call \in {[client |-> "none", op |-> "none", args |-> a] : a \in LazyArgs}
  /\ payload = NoPayload
  /\ result = NoResult
  /\ sent = [c \in Clients |-> 0]
  /\ InitConstructed
  /\ streams = NoStreams

NextLazy ==
  \E c \in Clients :
    \/ ChatCompletion(c, call.args)
    \/ FirstPull(c)
    \/ Pull(c)
    \/ Close(c)
    \/ PullAfterEnd(c)

SpecLazy == InitLazy /\ [][NextLazy]_vars

(***************************************************************************)
(* Properties of the error surface.                                        *)
(***************************************************************************)
\* C6: every failure a caller observes, from a decode pass or from a call,
\* is an error of one of the Error Taxonomy kinds; no exception of the HTTP
\* collaborator (or any other raw exception) escapes.
C6_OnlyTaxonomyErrors ==
  /\ \A c \in Clients :
       outcome[c].t = "raise" => KindOf(outcome[c].err) \in TaxonomyKinds
  /\ (result.t = "raise" => KindOf(result.err) \in TaxonomyKinds)

Is2xx(status) == 200 <= status /\ status < 300

\* the status of the response that ends the exchange with the server: the
\* first answer for the asynchronous client; for the blocking client the
\* first answer outside the retried statuses, or the answer to the last
\* attempt the retry budget allows
RECURSIVE LastAnswer(_, _)
LastAnswer(i, budget) ==
  IF served[i] \in StatusForcelist /\ budget > 0
    THEN LastAnswer(i + 1, budget - 1)
    ELSE served[i]

AnsweredStatus(c) == IF c = "sync" THEN LastAnswer(1, max_retries) ELSE served[1]

KindForStatus(status) ==
  IF status = 401 THEN "Auth"
  ELSE IF status = 429 THEN "RateLimit"
  ELSE IF 500 <= status /\ status <= 599 THEN "Server"
  ELSE "HTTP"

CallMade == call.op # "none"

\* C7: a call answered with a non-2xx status raises an error whose kind
\* follows from the status alone (401 Auth, 429 RateLimit, 5xx Server,
\* otherwise HTTP); a non-2xx answer is never returned as a success.
C7_StatusDeterminesKind ==
  (CallMade /\ net = "ok" /\ ~Is2xx(AnsweredStatus(call.client))) =>
    /\ result.t = "raise"
    /\ KindOf(result.err) = KindForStatus(AnsweredStatus(call.client))

\* C8: a call that receives no response raises a Timeout error when the
\* deadline expired and a Connection error when the host was unreachable.
C8_TransportKinds ==
  CallMade =>
    /\ (net = "timeout" => result.t = "raise" /\ KindOf(result.err) = "Timeout")
    /\ (net = "connect" =>
          result.t = "raise" /\ KindOf(result.err) = "Connection")

\* the body is a JSON error envelope {error: {message, ...}}
IsEnvelope(b) ==
  b.json /\ b.top = "object" /\ b.error = "object" /\ b.has_message

\* C9: for a non-2xx answer the message of the raised error is the
\* error.message of the body when the body is an error envelope, and a
\* description derived from the status otherwise.
C9_MessageFromEnvelope ==
  (CallMade /\ net = "ok" /\ ~Is2xx(AnsweredStatus(call.client))) =>
    /\ result.t = "raise"
    /\ result.err.message =
         IF IsEnvelope(body) THEN body.message
         ELSE StrOfHTTPError(call.client, AnsweredStatus(call.client))

(***************************************************************************)
(* Properties of the payload.                                              *)
(***************************************************************************)
\* the caller passed option k with a value that is not None
Supplied(a, k) ==
  IF k = "stream" THEN a.stream \notin {"unset", "None"}
  ELSE IF k = "stream_options" THEN a.stream_options # "None"
  ELSE IF k \in SimpleOptions THEN a.opts[k] # "None"
  ELSE k \in DOMAIN a.kwargs /\ a.kwargs[k] # "None"

\* C10: for a valid model and message list, an optional key is in the
\* payload if and only if the caller supplied the option with a value other
\* than None, and no key of the payload holds None.
C10_OptionalKeysIffSupplied ==
  (call.op = "chat_completion" /\ result.t # "raise") =>
    /\ \A k \in NamedOptions \cup ExtraKeys :
         k \in DOMAIN payload <=> Supplied(call.args, k)
    /\ \A k \in DOMAIN payload : payload[k] # "None"

(***************************************************************************)
(* Properties of validation.                                               *)
(***************************************************************************)
\* model is a string that is empty or holds only whitespace
BlankModel(a) == a.model.is_str /\ RStrip(LStrip(a.model.text)) = <<>>

\* messages is a list without items
EmptyMessages(a) == a.messages.is_list /\ a.messages.items = <<>>

\* a message, loose record or ChatMessage, that lacks role or content
LacksRoleOrContent(a) ==
  \E i \in 1..Len(a.messages.items) :
    /\ a.messages.items[i].type \in {"dict", "ChatMessage"}
    /\ ~({"role", "content"} \subseteq a.messages.items[i].keys)

\* C11: chat_completion with a blank model, an empty message list or a
\* message that lacks role or content raises an error of the Validation
\* kind and hands no request to the HTTP collaborator, with stream=True as
\* with stream=False.
C11_ValidationError ==
  (/\ call.op = "chat_completion"
   /\ BlankModel(call.args) \/ EmptyMessages(call.args)
        \/ LacksRoleOrContent(call.args))
  => /\ result.t = "raise"
     /\ KindOf(result.err) = "Validation"
     /\ sent[call.client] = 0

\* the part of C11 the code keeps: the call raises and sends nothing
C11_RaisesAndSendsNothing ==
  (/\ call.op = "chat_completion"
   /\ BlankModel(call.args) \/ EmptyMessages(call.args)
        \/ LacksRoleOrContent(call.args))
  => /\ result.t = "raise"
     /\ result.err.cls = "ValueError"
     /\ sent[call.client] = 0
     /\ payload = NoPayload

(***************************************************************************)
(* Properties of the client objects.                                       *)
(***************************************************************************)
\* the caller passed default headers that the constructor merges
CallerHeaders ==
  IF ctor.default_headers.given THEN ctor.default_headers.items ELSE NoHeaders

\* C12: the headers of every constructed client carry Authorization equal
\* to "Bearer <credential of the client>", whatever default headers the
\* caller passed, and every other header the caller passed holds the
\* caller's value.
C12_AuthorizationAlwaysSet ==
  \A c \in Clients :
    client[c].state = "constructed" =>
      /\ client[c].headers["Authorization"] = Bearer(client[c].api_key)
      /\ \A k \in DOMAIN CallerHeaders \ {"Authorization"} :
           client[c].headers[k] = CallerHeaders[k]

\* the part of C12 the code keeps: the caller's value wins for every key
\* the caller passed, and the adapter's value stands for the others
C12_CallerHeadersWin ==
  \A c \in Clients :
    client[c].state = "constructed" =>
      \A k \in DOMAIN client[c].headers :
        client[c].headers[k] =
          IF k \in DOMAIN CallerHeaders THEN CallerHeaders[k]
          ELSE OwnHeaders(client[c].api_key)[k]

\* the credential the claim of C13 names: the explicit argument when it
\* holds one, else the value from the environment
Credential ==
  IF Truthy(ctor.api_key) THEN ctor.api_key ELSE ctor.environ

\* what C13 says of a finished constructor call of client c
CredentialResolved(c) ==
  IF Truthy(Credential)
    THEN client[c].state = "constructed" => client[c].api_key = Credential
    ELSE /\ client[c].state = "failed"
         /\ KindOf(client[c].err) = "Auth"
         /\ client[c].sessions = 0

C13_WitnessExplicit ==
  /\ Truthy(ctor.api_key) /\ Truthy(ctor.environ)
  /\ ctor.api_key # ctor.environ
  /\ \A c \in Clients :
       client[c].state = "constructed" /\ client[c].api_key = ctor.api_key

\* C15: when the block of a with statement ends, normally or by an
\* exception, the client is closed in that step, and the exception the
\* block raised is the one the caller of the with statement gets.
C15_ClosedOnEveryExit ==
  [][\A c \in Clients :
       (scope[c].pc = "in" /\ scope'[c].pc = "left") =>
         /\ client'[c].closed = client[c].closed + 1
         /\ scope'[c].raised = scope'[c].exc]_vars

\* one scope was left normally and the other by an exception, and both
\* clients are closed
C15_Witness ==
  /\ scope["sync"].pc = "left" /\ scope["sync"].exc = NoExc
  /\ scope["async"].pc = "left" /\ scope["async"].exc # NoExc
  /\ scope["async"].raised = scope["async"].exc
  /\ \A c \in Clients : client[c].closed = 1

(***************************************************************************)
(* Properties of the hand-over to the HTTP collaborator.                   *)
(***************************************************************************)
\* an error of the package: a class of errors.py, the base class included
IsRoutewayError(e) == KindOf(e) # "none" \/ e.cls = "RoutewayError"

\* the collaborator gave no 2xx response: it reported a failure or its
\* last answer has another status
NoSuccess(c) == net # "ok" \/ ~Is2xx(AnsweredStatus(c))

\* C14: a call of chat_completion, models_list or model_retrieve hands its
\* request to the HTTP collaborator at most once, and when the collaborator
\* reports a failure or a non-2xx response the call raises an error of the
\* package instead of returning or sending again.
C14_OneHandOverThenTypedError ==
  CallMade =>
    /\ sent[call.client] <= 1
    /\ (NoSuccess(call.client) =>
          result.t = "raise" /\ IsRoutewayError(result.err))

\* the part of C14 the code keeps: one hand-over per call, and outside the
\* statuses 300..399 answered to the blocking client an error of the
\* package for every failure and every non-2xx response
C14_OneHandOver ==
  CallMade =>
    /\ sent[call.client] = 1
    /\ (/\ NoSuccess(call.client)
        /\ ~(/\ call.client = "sync"
             /\ net = "ok"
             /\ ~RequestsRaises(AnsweredStatus("sync"))))
       => result.t = "raise" /\ IsRoutewayError(result.err)

(***************************************************************************)
(* Properties of the pass-through options.                                 *)
(***************************************************************************)
\* the value the caller passed for the named parameter k
NamedValue(a, k) ==
  IF k \in RequiredKeys THEN k
  ELSE IF k = "stream" THEN StreamParam(a.stream)
  ELSE IF k = "stream_options" THEN StreamOptionsValue(a.stream_options)
  ELSE a.opts[k]

\* the caller passed a value for the named parameter k
NamedGiven(a, k) == k \in RequiredKeys \/ Supplied(a, k)

ValidCall ==
  /\ call.op = "chat_completion"
  /\ _validate_chat_params(call.client, call.args.model,
                           call.args.messages).t = "ok"

\* C16: after a call with a valid model and message list, every extra
\* keyword the caller passed is a key of the payload; it holds the
\* caller's value when it names no parameter, and the value of the named
\* option when it names one that the caller also passed.
C16_PassThroughNamedWins ==
  ValidCall =>
    \A k \in DOMAIN call.args.kwargs :
      (k \in ParameterNames => NamedGiven(call.args, k)) =>
        /\ result.t # "raise"
        /\ k \in DOMAIN payload
        /\ payload[k] = IF k \in ParameterNames THEN NamedValue(call.args, k)
                        ELSE call.args.kwargs[k]

\* the part of C16 the code keeps: without a keyword that names a
\* parameter, every extra keyword is copied into the payload as passed
C16_PassThroughVerbatim ==
  (ValidCall /\ DOMAIN call.args.kwargs \cap ParameterNames = {}) =>
    /\ result.t # "raise"
    /\ \A k \in DOMAIN call.args.kwargs :
         k \in DOMAIN payload /\ payload[k] = call.args.kwargs[k]

\* what the code does with a keyword that names a parameter: the call
\* raises TypeError, builds no payload and sends nothing
C16_CollisionRaisesTypeError ==
  (call.op = "chat_completion"
     /\ DOMAIN call.args.kwargs \cap ParameterNames # {}) =>
    /\ result.t = "raise"
    /\ result.err.cls = "TypeError"
    /\ payload = NoPayload
    /\ sent[call.client] = 0

(***************************************************************************)
(* Properties of concurrent streams.                                       *)
(***************************************************************************)
\* a pass of client c alone over the lines ls, pulled to its end: the
\* chunks it yields and how it ends
RECURSIVE SoloRun(_, _, _, _, _)
SoloRun(c, ls, p, brk, acc) ==
  LET e == RunFrom(c, ls, p, brk) IN
    IF e.ev = "yield" THEN SoloRun(c, ls, e.pos, brk, Append(acc, e.value))
    ELSE [chunks |-> acc, pos |-> e.pos,
          outcome |-> IF e.ev = "error" THEN Outcome("raise", e.err)
                                        ELSE Outcome("end", NoExc)]

\* the chunks of the first p lines of ls in the order of the lines
RECURSIVE ChunksInOrder(_, _, _)
ChunksInOrder(c, ls, p) ==
  IF p = 0 THEN <<>>
  ELSE LET step == ProcessLine(c, ls[p]) IN
    IF step.t = "yield"
      THEN Append(ChunksInOrder(c, ls, p - 1), step.value)
      ELSE ChunksInOrder(c, ls, p - 1)

\* C17: with several generators of one client pulled and closed in any
\* order, the chunks of each are those of its own lines in the order
\* received and, once it has run to its end, exactly the chunks and the
\* end of a pass run alone; its response is released when its own pass ends
\* and not before, and the connection pool of the client is never released
\* by a generator.
C17_StreamsIndependent ==
  \A s \in DOMAIN streams :
    LET st == streams[s]
        solo == SoloRun(st.client, st.lines, 0, st.broken, <<>>)
    IN /\ st.chunks = ChunksInOrder(st.client, st.lines, st.pos)
       /\ IsPrefixOf(st.chunks, solo.chunks)
       /\ (st.pc = "done" /\ st.outcome.t # "closed" =>
             /\ st.chunks = solo.chunks
             /\ st.outcome = solo.outcome
             /\ st.pos = solo.pos)
       /\ st.released = (IF st.opened /\ st.pc = "done" THEN 1 ELSE 0)
       /\ client[st.client].closed = 0

\* one generator was closed by its consumer after its first chunk and its
\* response is released, while another one of the same client is suspended
\* at its second chunk with its response open
C17_Witness ==
  \E s, u \in DOMAIN streams :
    /\ streams[s].outcome.t = "closed" /\ streams[s].released = 1
    /\ Len(streams[s].chunks) = 1
    /\ streams[u].pc = "suspended" /\ streams[u].released = 0
    /\ Len(streams[u].chunks) = 2

(***************************************************************************)
(* Properties of the life of a chunk sequence.                             *)
(***************************************************************************)
\* C18: once the pass of a sequence has ended (sentinel, end of input,
\* error or close by the consumer), no later step of the sequence reads a
\* line, yields a chunk, sends a request or releases the response again,
\* and all a later pull gives the consumer is the end of the sequence.
C18_NoRestart ==
  [][\A c \in Clients :
       pc[c] = "done" =>
         /\ pc'[c] = "done"
         /\ pos'[c] = pos[c]
         /\ chunks'[c] = chunks[c]
         /\ sent'[c] = sent[c]
         /\ opened'[c] = opened[c]
         /\ released'[c] = released[c]
         /\ outcome'[c] = outcome[c]
         /\ (last'[c] = last[c] \/ last'[c] = "end")]_vars

\* the blocking sequence ended by an error and the asynchronous one was
\* closed by its consumer after a chunk with lines left unread; both were
\* pulled again and gave the end of the sequence
C18_Witness ==
  /\ pc["sync"] = "done" /\ outcome["sync"].t = "raise"
  /\ opened["sync"] /\ released["sync"] = 1
  /\ last["sync"] = "end"
  /\ pc["async"] = "done" /\ outcome["async"].t = "closed"
  /\ Len(chunks["async"]) >= 1 /\ pos["async"] < Len(lines)
  /\ last["async"] = "end"

\* no line of the stream is the sentinel
NoSentinel == \A i \in 1..Len(lines) : ~IsSentinelLine(lines[i])

\* what C19 says of the pass of client c
EndsAtEndOfInput(c) ==
  (pc[c] = "done" /\ outcome[c].t # "closed") =>
    /\ outcome[c].t = "end"
    /\ pos[c] = Len(lines)
    /\ chunks[c] = ExpectedChunks(lines)
    /\ released[c] = 1

\* C19: over a finite stream without a sentinel that ends without a
\* transport error, a pass that is pulled to its end reads every line,
\* yields the chunks of all valid data lines in order, ends normally
\* without an error and releases its response.
C19_EndsAtEndOfInput ==
  (HealthyRun /\ ~broken /\ NoSentinel) =>
    \A c \in Clients : EndsAtEndOfInput(c)

\* the part of C19 the code keeps: the asynchronous pass always, the
\* blocking pass when every line is valid UTF-8
C19_EndsAtEndOfValidInput ==
  (HealthyRun /\ ~broken /\ NoSentinel) =>
    /\ EndsAtEndOfInput("async")
    /\ ((\A i \in 1..Len(lines) : Utf8Valid(lines[i])) =>
          EndsAtEndOfInput("sync"))

\* the consumer has pulled from the sequence of client c while it was
\* live: the pass is suspended at a chunk, or it has ended otherwise than
\* by a close of the generator that had yielded nothing (a generator is
\* closed at a yield or before its start)
Pulled(c) ==
  \/ pc[c] = "suspended"
  \/ pc[c] = "done" /\ ~(outcome[c].t = "closed" /\ chunks[c] = <<>>)

\* the request of a pass of client c fails: no response, or a status that
\* the client turns into an exception
RequestFails(c) == ~OpenStream(c).ok

\* C20: a streaming chat_completion call raises the validation errors
\* itself and returns the sequence otherwise, whatever the server would
\* answer; the request is sent by the first pull and not before, so a
\* sequence that was never pulled has sent nothing and holds no response,
\* and a failing request raises at the first pull, before any line is read.
C20_LazyRequestEagerValidation ==
  /\ (call.op = "chat_completion" =>
        IF _validate_chat_params(call.client, call.args.model,
                                 call.args.messages).t = "raise"
          THEN /\ result.t = "raise"
               /\ result.err.cls = "ValueError"
               /\ sent[call.client] = 0
               /\ pc[call.client] = "none"
          ELSE result = Generator)
  /\ \A c \in Clients :
       /\ (~Pulled(c) =>
             sent[c] = 0 /\ ~opened[c] /\ released[c] = 0 /\ pos[c] = 0)
       /\ (Pulled(c) => sent[c] = 1)
       /\ (Pulled(c) /\ RequestFails(c) =>
             /\ pc[c] = "done"
             /\ outcome[c] = Outcome("raise", OpenStream(c).err)
             /\ pos[c] = 0
             /\ chunks[c] = <<>>)

\* against a network that times out, the blocking call returned a sequence
\* that was never pulled and has sent nothing, and the asynchronous
\* sequence raised at its first pull
C20_Witness ==
  /\ net = "timeout"
  /\ call.op = "chat_completion" /\ result = Generator
  /\ pc["sync"] = "created" /\ sent["sync"] = 0
  /\ Pulled("async") /\ sent["async"] = 1
  /\ outcome["async"].t = "raise"
  /\ pos["async"] = 0

====
